---------------------------- MODULE Spec2Model ----------------------------
(***************************************************************************)
(* Armature deformation kernel of blenkernel/intern/armature_deform.cc.   *)
(*                                                                         *)
(* C floats are modelled by exact rationals <<n, d>> (d > 0, lowest        *)
(* terms), so every comparison the code makes (== 0.0f, > 0.0f, > 0.0001f, *)
(* < r * r ...) is decided exactly.  Square roots are taken only of        *)
(* perfect squares; the inputs are chosen so that this is the case.        *)
(*                                                                         *)
(* struct SubFrame of blenlib/BLI_sub_frame.hh is modelled beside it, on   *)
(* rounded binary floats of a few bits (SpecSubFrame).                     *)
(***************************************************************************)
EXTENDS Integers, Sequences, FiniteSets, TLC

(***************************************************************************)
(* Bounds of the model.                                                    *)
(***************************************************************************)
\* number of vertices of the batch (vert_coords_len)
NVerts == 2
\* the distances, radii and falloff distances fed to bone_envelope_falloff
\* on its own are the halves 0, 1/2, ..., MaxFalloffNum / 2
MaxFalloffNum == 4
\* the bits of the significand of a float in the model of SubFrame
MantBits == 2
\* the bits of an int in the model of SubFrame
IntBits == 3

(***************************************************************************)
(* Program constants.                                                      *)
(***************************************************************************)
\* float co[3]
Dim == 3
\* contrib > 0.0001f  (the threshold is ThresholdNum / ThresholdDen)
ThresholdNum == 1
ThresholdDen == 10000

\* A pointer is NULL or points to a value.
NULL == [null |-> TRUE]
Ptr(x) == [null |-> FALSE, val |-> x]
IsNull(p) == p.null

(***************************************************************************)
(* float arithmetic, as exact rationals                                    *)
(***************************************************************************)
Abs(x) == IF x < 0 THEN -x ELSE x

RECURSIVE GCD(_, _)
GCD(a, b) == IF b = 0 THEN a ELSE GCD(b, a % b)

Rat(n, d) ==
    LET s == IF d < 0 THEN -1 ELSE 1
        g == GCD(Abs(n), Abs(d))
    IN  IF n = 0 THEN <<0, 1>> ELSE <<(s * n) \div g, (s * d) \div g>>

R(n) == <<n, 1>>
RZero == <<0, 1>>
ROne == <<1, 1>>

RAdd(a, b) == Rat(a[1] * b[2] + b[1] * a[2], a[2] * b[2])
RSub(a, b) == Rat(a[1] * b[2] - b[1] * a[2], a[2] * b[2])
RMul(a, b) == Rat(a[1] * b[1], a[2] * b[2])
\* division by zero yields what C yields for finite / 0: it is never taken on
\* a path whose result is used (see the guards of the callers)
RDiv(a, b) == Rat(a[1] * b[2], a[2] * b[1])
RLt(a, b) == a[1] * b[2] < b[1] * a[2]
RLe(a, b) == a[1] * b[2] <= b[1] * a[2]
RGt(a, b) == RLt(b, a)
RGe(a, b) == RLe(b, a)

\* sqrtf, on perfect squares only
ISqrt(n) == CHOOSE k \in 0..n : k * k = n
RSqrt(a) == <<ISqrt(a[1]), ISqrt(a[2])>>

\* math::square
square(a) == RMul(a, a)

(***************************************************************************)
(* BLI_math_vector / BLI_math_matrix                                       *)
(***************************************************************************)
Axes == 1..Dim

zero_v3 == [k \in Axes |-> RZero]
add_v3_v3(a, b) == [k \in Axes |-> RAdd(a[k], b[k])]
sub_v3_v3(a, b) == [k \in Axes |-> RSub(a[k], b[k])]
mul_v3_fl(a, f) == [k \in Axes |-> RMul(a[k], f)]
\* madd_v3_v3fl(r, a, f): r += a * f
madd_v3_v3fl(r, a, f) == add_v3_v3(r, mul_v3_fl(a, f))

RECURSIVE RSum(_, _)
RSum(f, S) ==
    IF S = {} THEN RZero
    ELSE LET k == CHOOSE x \in S : TRUE IN RAdd(f[k], RSum(f, S \ {k}))

dot(a, b) == RSum([k \in Axes |-> RMul(a[k], b[k])], Axes)
distance_squared(a, b) == LET d == sub_v3_v3(a, b) IN dot(d, d)
\* math::interpolate(a, b, t) = a * (1 - t) + b * t
interpolate(a, b, t) == RAdd(RMul(a, RSub(ROne, t)), RMul(b, t))

\* A 3x3 matrix is a function row -> column -> float.
zero_m3 == [r \in Axes |-> [c \in Axes |-> RZero]]
unit_m3 == [r \in Axes |-> [c \in Axes |-> IF r = c THEN ROne ELSE RZero]]
mul_m3_fl(m, f) == [r \in Axes |-> [c \in Axes |-> RMul(m[r][c], f)]]
add_m3_m3(a, b) == [r \in Axes |-> [c \in Axes |-> RAdd(a[r][c], b[r][c])]]
mul_m3_m3m3(a, b) ==
    [r \in Axes |-> [c \in Axes |->
        RSum([k \in Axes |-> RMul(a[r][k], b[k][c])], Axes)]]
mul_m3_v3(m, v) == [r \in Axes |-> dot(m[r], v)]
\* madd_m3_m3m3fl(r, a, b, f): r = a + b * f
madd_m3_m3m3fl(a, b, f) == add_m3_m3(a, mul_m3_fl(b, f))
\* mul_m3_series(r, m1, m2, m3, m4): r = m1 * m2 * m3 * m4
mul_m3_series(m1, m2, m3, m4) ==
    mul_m3_m3m3(m1, mul_m3_m3m3(m2, mul_m3_m3m3(m3, m4)))

\* An affine 4x4 matrix: its 3x3 part and its translation.
Mat4(m3, loc) == [lin |-> m3, loc |-> loc]
copy_m3_m4(m) == m.lin
\* mul_v3_m4v3 / mul_m4_v3: the point transformed by the matrix
mul_m4_v3(m, v) == add_v3_v3(mul_m3_v3(m.lin, v), m.loc)
mul_m4_m4m4(a, b) == Mat4(mul_m3_m3m3(a.lin, b.lin), mul_m4_v3(a, b.loc))

Next3(k) == (k % Dim) + 1
\* cofactor of m at (r, c), by the cyclic rule (no sign needed)
Cofactor(m, r, c) ==
    RSub(RMul(m[Next3(r)][Next3(c)], m[Next3(Next3(r))][Next3(Next3(c))]),
         RMul(m[Next3(r)][Next3(Next3(c))], m[Next3(Next3(r))][Next3(c)]))
determinant_m3(m) == RSum([c \in Axes |-> RMul(m[1][c], Cofactor(m, 1, c))], Axes)
invert_m3(m) ==
    LET det == determinant_m3(m)
    IN  [r \in Axes |-> [c \in Axes |-> RDiv(Cofactor(m, c, r), det)]]
invert_m4_m4(m) ==
    LET inv == invert_m3(m.lin)
    IN  Mat4(inv, sub_v3_v3(zero_v3, mul_m3_v3(inv, m.loc)))

\* math::normalize_and_get_length: <<axis, length>>; a zero vector stays zero
normalize_and_get_length(v) ==
    LET len == RSqrt(dot(v, v))
    IN  IF len = RZero THEN <<zero_v3, RZero>>
        ELSE <<mul_v3_fl(v, RDiv(ROne, len)), len>>

V3(x, y, z) == <<R(x), R(y), R(z)>>

(***************************************************************************)
(* Bone envelope falloff                                                   *)
(***************************************************************************)
\* the falloff measured from the axis of the bone instead of from the surface
\* of its core (the radius is not subtracted)
bone_envelope_falloff_from_axis(distance_squared_, closest_radius, falloff_distance) ==
    IF RLt(distance_squared_, RMul(closest_radius, closest_radius)) THEN ROne
    ELSE IF falloff_distance = RZero
            \/ RGe(distance_squared_, square(RAdd(closest_radius, falloff_distance)))
         THEN RZero
    ELSE RSub(ROne, RDiv(distance_squared_,
                         RMul(falloff_distance, falloff_distance)))

bone_envelope_falloff(distance_squared_, closest_radius, falloff_distance) ==
    IF RLt(distance_squared_, RMul(closest_radius, closest_radius)) THEN ROne
    ELSE IF falloff_distance = RZero
            \/ RGe(distance_squared_, square(RAdd(closest_radius, falloff_distance)))
         THEN RZero
    ELSE LET dist_envelope == RSub(RSqrt(distance_squared_), closest_radius)
         IN  RSub(ROne, RDiv(RMul(dist_envelope, dist_envelope),
                             RMul(falloff_distance, falloff_distance)))

distfactor_to_bone(position, head, tail, radius_head, radius_tail, falloff_distance) ==
    LET nl == normalize_and_get_length(sub_v3_v3(tail, head))
        bone_axis == nl[1]
        bone_length == nl[2]
        height == dot(sub_v3_v3(position, head), bone_axis)
    IN  IF RLt(height, RZero)
        THEN bone_envelope_falloff(distance_squared(position, head),
                                   radius_head, falloff_distance)
        ELSE IF RGt(height, bone_length)
        THEN bone_envelope_falloff(distance_squared(tail, position),
                                   radius_tail, falloff_distance)
        ELSE LET d2 == RSub(distance_squared(position, head), RMul(height, height))
                 closest_radius ==
                     IF bone_length # RZero
                     THEN interpolate(radius_head, radius_tail,
                                      RDiv(height, bone_length))
                     ELSE radius_head
             IN  bone_envelope_falloff(d2, closest_radius, falloff_distance)

(***************************************************************************)
(* Bones, pose channels, vertex groups                                     *)
(***************************************************************************)
BONE_NO_DEFORM == "BONE_NO_DEFORM"
BONE_MULT_VG_ENV == "BONE_MULT_VG_ENV"

Bone(name, head, tail, rad_head, rad_tail, dist, weight, flag, segments) ==
    [name |-> name, arm_head |-> head, arm_tail |-> tail,
     rad_head |-> rad_head, rad_tail |-> rad_tail, dist |-> dist,
     weight |-> weight, flag |-> flag, segments |-> segments]

\* A pose channel.  runtime.deform_dual_quat and runtime.bbone_dual_quats are
\* kept as the affine transforms they stand for (see DualQuat below), so the
\* only runtime fields are the B-Bone segment count and matrices:
\* bbone_deform_mats[j + 1] is the C array's mats[j].
PoseChannel(bone, chan_mat, bbone_segments, bbone_deform_mats) ==
    [name |-> bone.name, bone |-> Ptr(bone), chan_mat |-> chan_mat,
     bbone_segments |-> bbone_segments, bbone_deform_mats |-> bbone_deform_mats]

diag_m3(a, b, c) ==
    <<  <<a, RZero, RZero>>, <<RZero, b, RZero>>, <<RZero, RZero, c>>  >>
\* a quarter turn about the z axis
rotz_m3 ==
    <<  <<RZero, R(-1), RZero>>, <<ROne, RZero, RZero>>, <<RZero, RZero, ROne>>  >>

\* the bones of the armature: all along the z axis
BoneA == Bone("A", V3(0, 0, 0), V3(0, 0, 2), ROne, ROne, ROne, ROne, {}, 1)
BoneB == Bone("B", V3(4, 0, 0), V3(4, 0, 2), ROne, ROne, R(2), ROne,
              {BONE_MULT_VG_ENV}, 1)
BoneN == Bone("N", V3(0, 0, 0), V3(0, 0, 2), R(2), R(2), ROne, ROne,
              {BONE_NO_DEFORM}, 1)
BoneS == Bone("S", V3(-4, 0, 0), V3(-4, 0, 2), ROne, ROne, RZero, R(2), {}, 3)
\* a bone whose envelope weight is negative, and one whose weight is zero
BoneW == Bone("W", V3(0, 0, 0), V3(0, 0, 2), ROne, ROne, ROne, Rat(-1, 2), {}, 1)
BoneZ == Bone("Z", V3(0, 0, 0), V3(0, 0, 2), ROne, ROne, ROne, RZero, {}, 1)

PchanA == PoseChannel(BoneA, Mat4(diag_m3(R(2), ROne, ROne), V3(0, 1, 0)), 0, <<>>)
PchanB == PoseChannel(BoneB, Mat4(rotz_m3, V3(0, 0, 1)), 0, <<>>)
PchanN == PoseChannel(BoneN, Mat4(diag_m3(R(5), R(5), R(5)), V3(7, 7, 7)), 0, <<>>)
PchanS ==
    PoseChannel(BoneS, Mat4(unit_m3, V3(0, 0, 3)), 3,
                <<Mat4(unit_m3, zero_v3),
                  Mat4(unit_m3, V3(1, 0, 0)),
                  Mat4(unit_m3, V3(0, 2, 0)),
                  Mat4(diag_m3(R(2), R(2), ROne), V3(0, 0, 4)),
                  Mat4(diag_m3(R(2), R(2), ROne), V3(0, 0, 4))>>)
PchanW == PoseChannel(BoneW, Mat4(unit_m3, V3(0, 0, 5)), 0, <<>>)
PchanZ == PoseChannel(BoneZ, Mat4(unit_m3, V3(0, 0, 6)), 0, <<>>)

\* ob_arm->pose->chanbase, one list per pose of the catalogue
Poses ==
    <<  <<PchanA, PchanB, PchanN, PchanS>>,
        <<PchanW, PchanA, PchanZ>>  >>

\* the vertex-group names of the target (defbase); "soft" names no bone
Defbase == <<"A", "B", "N", "soft", "S", "W">>

\* 0-based index of a group, as MDeformWeight.def_nr holds it
DefNr(name) == (CHOOSE k \in 1..Len(Defbase) : Defbase[k] = name) - 1
DW(def_nr, weight) == [def_nr |-> def_nr, weight |-> weight]

(***************************************************************************)
(* External collaborators                                                  *)
(***************************************************************************)
\* BKE_defgroup_name_index: the 0-based index of the named group, or -1
BKE_defgroup_name_index(defbase, name) ==
    IF \E k \in 1..Len(defbase) : defbase[k] = name
    THEN (CHOOSE k \in 1..Len(defbase) : defbase[k] = name) - 1
    ELSE -1

\* BKE_pose_channel_find_name
BKE_pose_channel_find_name(chanbase, name) ==
    IF \E k \in 1..Len(chanbase) : chanbase[k].name = name
    THEN Ptr(chanbase[CHOOSE k \in 1..Len(chanbase) : chanbase[k].name = name])
    ELSE NULL

\* BKE_defvert_find_weight: the weight of the group in the vertex, else 0
BKE_defvert_find_weight(dvert, def_nr) ==
    IF \E k \in 1..Len(dvert) : dvert[k].def_nr = def_nr
    THEN dvert[CHOOSE k \in 1..Len(dvert) :
                  /\ dvert[k].def_nr = def_nr
                  /\ \A j \in 1..(k - 1) : dvert[j].def_nr # def_nr].weight
    ELSE RZero

RFloor(a) == a[1] \div a[2]
Clamp(x, lo, hi) == IF x < lo THEN lo ELSE IF x > hi THEN hi ELSE x
RClamp01(a) == IF RLt(a, RZero) THEN RZero ELSE IF RGt(a, ROne) THEN ROne ELSE a

\* BKE_pchan_bbone_deform_segment_index: the first of the two adjacent
\* segments straddling the projection of co on the bone, and the blend factor
\* in [0, 1] towards the second: <<index, blend>>
BKE_pchan_bbone_deform_segment_index(pchan, co) ==
    LET bone == pchan.bone.val
        nl == normalize_and_get_length(sub_v3_v3(bone.arm_tail, bone.arm_head))
        head_tail == RDiv(dot(sub_v3_v3(co, bone.arm_head), nl[1]), nl[2])
        pre_blend == RMul(head_tail, R(bone.segments - 1))
        index == Clamp(RFloor(pre_blend), 0, bone.segments - 2)
    IN  <<index, RClamp01(RSub(pre_blend, R(index)))>>

\* DualQuat: a dual quaternion is kept as the affine transform it stands
\* for, and a weighted sum of dual quaternions as the weighted sum of these
\* transforms.  DualQuat sumdq = {}
zero_dq == Mat4(zero_m3, zero_v3)
\* add_weighted_dq_dq_pivot
add_weighted_dq_dq_pivot(dq_sum, dq, weight) ==
    Mat4(madd_m3_m3m3fl(dq_sum.lin, dq.lin, weight),
         madd_v3_v3fl(dq_sum.loc, dq.loc, weight))
\* normalize_dq(dq, totweight)
normalize_dq(dq, totweight) ==
    LET scale == RDiv(ROne, totweight)
    IN  Mat4(mul_m3_fl(dq.lin, scale), mul_v3_fl(dq.loc, scale))
\* mul_v3m3_dq(co, mat, dq): <<co', mat'>>
mul_v3m3_dq(co, dq) == <<mul_m4_v3(dq, co), dq.lin>>

(***************************************************************************)
(* Per-bone accumulation.  The accumulator s of one vertex task holds the  *)
(* code's locals                                                           *)
(*   vec      float *vec       (NULL in quaternion mode)                   *)
(*   dq       DualQuat *dq     (NULL in linear mode)                       *)
(*   mat      the 3x3 smat     (NULL unless linear mode with matrices)     *)
(*   contrib  float contrib                                                *)
(*   deformed int deformed                                                 *)
(* and three history fields that the code does not have:                   *)
(*   envelope whether the loop over the pose channels was entered          *)
(*   applied  the <<transform, weight>> pairs added to vec / dq            *)
(*   contribs the <<path, pose channel, weight>> additions to contrib      *)
(***************************************************************************)
Applied(s, deform_mat, weight) ==
    Append(s.applied, [mat |-> deform_mat, weight |-> weight])

\* lines 120-138
pchan_deform_accumulate(deform_dq, deform_mat, co_in, weight, s, full_deform) ==
    IF weight = RZero THEN s
    ELSE IF ~IsNull(s.dq)
    THEN [s EXCEPT !.dq = Ptr(add_weighted_dq_dq_pivot(s.dq.val, deform_dq, weight)),
                   !.applied = Applied(s, deform_mat, weight)]
    ELSE [s EXCEPT !.vec = Ptr(madd_v3_v3fl(s.vec.val,
                                   sub_v3_v3(mul_m4_v3(deform_mat, co_in), co_in),
                                   weight)),
                   !.mat = IF full_deform
                           THEN Ptr(madd_m3_m3m3fl(s.mat.val, copy_m3_m4(deform_mat),
                                                   weight))
                           ELSE s.mat,
                   !.applied = Applied(s, deform_mat, weight)]

\* the two blend weights exchanged between the segments
BBoneBlendSwapped(mats, ib, co, weight, s, full_deform) ==
    pchan_deform_accumulate(mats[ib[1] + 3], mats[ib[1] + 3], co,
        RMul(weight, RSub(ROne, ib[2])),
        pchan_deform_accumulate(mats[ib[1] + 2], mats[ib[1] + 2], co,
            RMul(weight, ib[2]), s, full_deform),
        full_deform)

\* lines 157-166, given <<index, blend>>.  quats[index] stands for
\* mats[index + 1], and the C array's mats[j] is mats[j + 1] here.
BBoneBlend(mats, ib, co, weight, s, full_deform) ==
    pchan_deform_accumulate(mats[ib[1] + 3], mats[ib[1] + 3], co,
        RMul(weight, ib[2]),
        pchan_deform_accumulate(mats[ib[1] + 2], mats[ib[1] + 2], co,
            RMul(weight, RSub(ROne, ib[2])), s, full_deform),
        full_deform)

b_bone_deform(pchan, co, weight, s, full_deform) ==
    BBoneBlend(pchan.bbone_deform_mats,
               BKE_pchan_bbone_deform_segment_index(pchan, co),
               co, weight, s, full_deform)

\* lines 190-196 and 218-224: the bone, or its two B-Bone segments
BoneOrSegments(pchan, weight, s, co, full_deform) ==
    IF pchan.bone.val.segments > 1
       /\ pchan.bbone_segments = pchan.bone.val.segments
    THEN b_bone_deform(pchan, co, weight, s, full_deform)
    ELSE pchan_deform_accumulate(pchan.chan_mat, pchan.chan_mat, co, weight, s,
                                 full_deform)

\* lines 187-197, given fac = envelope factor * bone->weight: <<s', contrib>>
DistBoneContrib(pchan, fac, s, co, full_deform) ==
    IF RGt(fac, RZero)
    THEN <<BoneOrSegments(pchan, fac, s, co, full_deform), fac>>
    ELSE <<s, fac>>

\* lines 186-200, given the envelope factor fac: <<s', contrib>>
DistBoneFac(pchan, fac, s, co, full_deform) ==
    IF RGt(fac, RZero)
    THEN DistBoneContrib(pchan, RMul(fac, pchan.bone.val.weight), s, co, full_deform)
    ELSE <<s, RZero>>

\* <<s', contrib>>
dist_bone_deform(pchan, s, co, full_deform) ==
    IF IsNull(pchan.bone) THEN <<s, RZero>>
    ELSE DistBoneFac(pchan,
                     distfactor_to_bone(co, pchan.bone.val.arm_head,
                         pchan.bone.val.arm_tail, pchan.bone.val.rad_head,
                         pchan.bone.val.rad_tail, pchan.bone.val.dist),
                     s, co, full_deform)

\* contrib += weight, with its history
AddContrib(s, path, name, weight) ==
    [s EXCEPT !.contrib = RAdd(s.contrib, weight),
              !.contribs = Append(s.contribs,
                                  [path |-> path, pchan |-> name, weight |-> weight])]

\* lines 212-226; the new contrib is s'.contrib
pchan_bone_deform(pchan, weight, s, co, full_deform) ==
    IF weight = RZero THEN s
    ELSE AddContrib(BoneOrSegments(pchan, weight, s, co, full_deform),
                    "vgroup", pchan.name, weight)

(***************************************************************************)
(* armature_vert_task_with_dvert, part by part                             *)
(***************************************************************************)
\* lines 278-300: the accumulators of one vertex
InitAccum(use_quaternion, full_deform) ==
    [vec |-> IF use_quaternion THEN NULL ELSE Ptr(zero_v3),
     dq |-> IF use_quaternion THEN Ptr(zero_dq) ELSE NULL,
     mat |-> IF ~use_quaternion /\ full_deform THEN Ptr(zero_m3) ELSE NULL,
     contrib |-> RZero,
     deformed |-> 0,
     envelope |-> FALSE,
     applied |-> <<>>,
     contribs |-> <<>>]

\* the armature weight left at the group weight beside the previous-coordinate
\* weight
BlendWeightsUnpinned(d, w) ==
    IF ~IsNull(d.vert_coords_prev) THEN <<w, RSub(ROne, w)>> ELSE <<w, RZero>>

\* lines 303-315, given the weight of the overall group
BlendWeights(d, w) ==
    IF ~IsNull(d.vert_coords_prev) THEN <<ROne, RSub(ROne, w)>> ELSE <<w, RZero>>

\* lines 305-307
InvertWeight(d, w) == IF d.invert_vgroup THEN RSub(ROne, w) ELSE w

\* lines 284-316: <<armature_weight, prevco_weight>>
ResolveWeights(d, dvert) ==
    IF d.armature_def_nr # -1 /\ ~IsNull(dvert)
    THEN BlendWeights(d, InvertWeight(d,
             BKE_defvert_find_weight(dvert.val, d.armature_def_nr)))
    ELSE <<ROne, RZero>>

\* lines 318-334: the vertex is skipped
EarlyOut(d, aw, pw) ==
    IF ~IsNull(d.vert_coords_prev) THEN pw = ROne ELSE aw = RZero

\* lines 371 and 381: contrib += dist_bone_deform(...)
EnvelopeAdd(r, name) == AddContrib(r[1], "envelope", name, r[2])

\* lines 367-373 and 377-383: every deforming pose channel, by its envelope
RECURSIVE EnvelopeLoop(_, _, _, _, _)
EnvelopeLoop(chanbase, k, s, co, full_deform) ==
    IF k > Len(chanbase) THEN s
    ELSE IF BONE_NO_DEFORM \notin chanbase[k].bone.val.flag
    THEN EnvelopeLoop(chanbase, k + 1,
             EnvelopeAdd(dist_bone_deform(chanbase[k], s, co, full_deform),
                         chanbase[k].name),
             co, full_deform)
    ELSE EnvelopeLoop(chanbase, k + 1, s, co, full_deform)

\* lines 353-363: the weight of the entry, by the envelope if the bone asks so
EntryWeight(bone, weight, co) ==
    IF ~IsNull(bone) /\ BONE_MULT_VG_ENV \in bone.val.flag
    THEN RMul(weight,
              distfactor_to_bone(co, bone.val.arm_head, bone.val.arm_tail,
                                 bone.val.rad_head, bone.val.rad_tail, bone.val.dist))
    ELSE weight

\* lines 348-363, given the pose channel of the entry
EntryPchan(pchan, dw, s, co, full_deform) ==
    IF IsNull(pchan) THEN s
    ELSE pchan_bone_deform(pchan.val, EntryWeight(pchan.val.bone, dw.weight, co),
                           [s EXCEPT !.deformed = 1], co, full_deform)

\* an entry whose index is out of range ends the loop (break for continue):
\* the entries after it are dropped
DvertEntriesBreak(d, dvert) ==
    IF \E j \in 1..Len(dvert) : dvert[j].def_nr >= d.defbase_len
    THEN SubSeq(dvert, 1,
                (CHOOSE j \in 1..Len(dvert) :
                    /\ dvert[j].def_nr >= d.defbase_len
                    /\ \A k \in 1..(j - 1) : dvert[k].def_nr < d.defbase_len) - 1)
    ELSE dvert

\* the entries the loop goes through: all of them
DvertEntries(d, dvert) == dvert

\* lines 344-363: one weight entry of the vertex
DvertEntry(d, table, dw, s, co, full_deform) ==
    IF dw.def_nr >= d.defbase_len THEN s
    ELSE EntryPchan(table.val[dw.def_nr + 1], dw, s, co, full_deform)

\* lines 343-364: for (j = dvert->totweight; j != 0; j--, dw++)
RECURSIVE DvertLoop(_, _, _, _, _, _, _)
DvertLoop(d, table, dvert, j, s, co, full_deform) ==
    IF j > Len(dvert) THEN s
    ELSE DvertLoop(d, table, dvert, j + 1,
                   DvertEntry(d, table, dvert[j], s, co, full_deform), co, full_deform)

\* lines 367, 377: for (pchan = chanbase.first; pchan; pchan = pchan->next)
EnvelopePath(chanbase, s, co, full_deform) ==
    EnvelopeLoop(chanbase, 1, [s EXCEPT !.envelope = TRUE], co, full_deform)

\* the fallback taken whether or not a vertex-group bone deformed the vertex
EnvelopeFallbackAlways(d, chanbase, s, co, full_deform) ==
    IF d.use_envelope THEN EnvelopePath(chanbase, s, co, full_deform) ELSE s

\* lines 365-374: if there are vertex groups but not groups with bones
EnvelopeFallback(d, chanbase, s, co, full_deform) ==
    IF s.deformed = 0 /\ d.use_envelope
    THEN EnvelopePath(chanbase, s, co, full_deform)
    ELSE s

\* lines 339-384
Accumulate(d, chanbase, table, dvert, co, full_deform) ==
    IF d.use_dverts /\ ~IsNull(dvert) /\ Len(dvert.val) # 0
    THEN EnvelopeFallback(d, chanbase,
             DvertLoop(d, table, DvertEntries(d, dvert.val), 1,
                       InitAccum(d.use_quaternion, full_deform), co, full_deform),
             co, full_deform)
    ELSE IF d.use_envelope
    THEN EnvelopePath(chanbase, InitAccum(d.use_quaternion, full_deform), co,
                      full_deform)
    ELSE InitAccum(d.use_quaternion, full_deform)

Threshold == Rat(ThresholdNum, ThresholdDen)

\* the test contrib > 0.0f in place of contrib > 0.0001f
AboveThresholdZero(contrib) == RGt(contrib, RZero)

\* line 387
AboveThreshold(contrib) == RGt(contrib, Threshold)

\* lines 389-402, given <<co', summat>> of mul_v3m3_dq on the normalized dq
QuatApply(dqr, aw, co) ==
    <<IF aw # ROne
      THEN add_v3_v3(co, mul_v3_fl(sub_v3_v3(dqr[1], co), aw))
      ELSE dqr[1],
      dqr[2]>>

\* lines 405-406 and 416-418: <<co', smat>>
LinearApply(s, aw, co, full_deform) ==
    <<add_v3_v3(mul_v3_fl(s.vec.val, RDiv(aw, s.contrib)), co),
      IF full_deform THEN mul_m3_fl(s.mat.val, RDiv(aw, s.contrib)) ELSE NULL>>

\* lines 388-407: <<co', smat>>
Deformed(d, s, aw, co, full_deform) ==
    IF d.use_quaternion
    THEN QuatApply(mul_v3m3_dq(co, normalize_dq(s.dq.val, s.contrib)), aw, co)
    ELSE LinearApply(s, aw, co, full_deform)

\* lines 409-421, given <<co', smat>>: <<co', vert_deform_mats[i]'>>
WithDeformMat(d, r, defmat, full_deform) ==
    <<r[1],
      IF full_deform
      THEN mul_m3_series(copy_m3_m4(d.postmat), r[2], copy_m3_m4(d.premat), defmat)
      ELSE defmat>>

\* lines 387-422: <<co', vert_deform_mats[i]'>> from the accumulators
ApplyDeform(d, s, aw, co, defmat) ==
    IF AboveThreshold(s.contrib)
    THEN WithDeformMat(d, Deformed(d, s, aw, co, ~IsNull(d.vert_deform_mats)),
                       defmat, ~IsNull(d.vert_deform_mats))
    ELSE <<co, defmat>>

(***************************************************************************)
(* The inputs of one invocation                                            *)
(***************************************************************************)
ARM_DEF_VGROUP == "ARM_DEF_VGROUP"
ARM_DEF_ENVELOPE == "ARM_DEF_ENVELOPE"
ARM_DEF_QUATERNION == "ARM_DEF_QUATERNION"
ARM_DEF_INVERT_VGROUP == "ARM_DEF_INVERT_VGROUP"
DeformFlags ==
    {ARM_DEF_VGROUP, ARM_DEF_ENVELOPE, ARM_DEF_QUATERNION, ARM_DEF_INVERT_VGROUP}
POSE_RECALC == "POSE_RECALC"

\* object_to_world of the armature and of the target
ArmObmat == Mat4(diag_m3(R(2), R(2), R(2)), V3(1, 0, 0))
TargetObmat == Mat4(unit_m3, V3(0, 1, 0))
\* lines 577-581, as the inputs below need them
Postmat0 == mul_m4_m4m4(invert_m4_m4(TargetObmat), ArmObmat)

\* The vertices the meshes are made of: a position in armature space and the
\* weight entries of the vertex.  7 is no index of Defbase.
VertCatalogue ==
    <<[co |-> <<Rat(1, 2), R(0), R(1)>>, dw |-> <<DW(DefNr("A"), ROne)>>],
      [co |-> V3(2, 0, 1), dw |-> <<DW(DefNr("A"), Rat(1, 2)), DW(DefNr("B"), Rat(1, 2))>>],
      [co |-> <<Rat(3, 2), R(0), R(1)>>, dw |-> <<DW(DefNr("soft"), Rat(1, 2))>>],
      [co |-> <<Rat(1, 2), R(0), R(1)>>, dw |-> <<DW(7, ROne), DW(DefNr("A"), Rat(1, 2))>>],
      [co |-> V3(0, 0, 1), dw |-> <<DW(DefNr("A"), RZero)>>],
      [co |-> <<Rat(1, 2), R(0), R(1)>>, dw |-> <<DW(DefNr("A"), R(-1))>>],
      [co |-> <<R(0), R(0), Rat(7, 2)>>, dw |-> <<DW(DefNr("N"), ROne)>>],
      [co |-> V3(1, 0, 0), dw |-> <<DW(DefNr("soft"), ROne), DW(DefNr("A"), ROne)>>],
      [co |-> V3(0, 0, 2), dw |-> <<DW(DefNr("soft"), RZero), DW(DefNr("A"), ROne)>>],
      [co |-> V3(0, 0, 1), dw |-> <<DW(DefNr("A"), Rat(1, 20000))>>],
      [co |-> <<Rat(-7, 2), R(0), Rat(1, 2)>>, dw |-> <<DW(DefNr("S"), ROne)>>],
      [co |-> V3(8, 0, 1), dw |-> <<>>],
      [co |-> V3(0, 0, 1), dw |-> <<DW(DefNr("W"), ROne), DW(DefNr("A"), Rat(1, 20000))>>],
      [co |-> <<R(0), R(0), Rat(-3, 2)>>, dw |-> <<DW(7, ROne)>>],
      [co |-> <<Rat(-7, 2), R(0), R(0)>>, dw |-> <<DW(DefNr("S"), Rat(1, 2))>>],
      [co |-> <<Rat(-7, 2), R(0), R(2)>>, dw |-> <<DW(DefNr("S"), ROne)>>]>>

\* the meshes: mesh m is made of NVerts consecutive vertices of the catalogue
NMeshes == (Len(VertCatalogue) + NVerts - 1) \div NVerts

\* vertex i (1-based) of mesh m
MeshVert(m, i) == VertCatalogue[((m * NVerts + i - 1) % Len(VertCatalogue)) + 1]

VARIABLES
    args,              \* the arguments of armature_deform_coords_impl
    input0,            \* the three buffers as they were at the call
    vert_coords,       \* float (*vert_coords)[3]
    vert_deform_mats,  \* float (*vert_deform_mats)[3][3], or NULL
    vert_coords_prev,  \* float (*vert_coords_prev)[3], or NULL
    pc,                \* where armature_deform_coords_impl is
    impl,              \* its locals: use_dverts, armature_def_nr, defbase_len, i
    table,             \* the memory pchan_from_defbase points to, or NULL
    heap,              \* history: the allocations and releases of the table
    data,              \* ArmatureUserdata, NULL before it is filled
    task,              \* per vertex: where its task is, and the task's locals
    clog,              \* the diagnostics emitted
    fall,              \* inputs and result of bone_envelope_falloff
    sub                \* the SubFrame values built and what was computed of them

vars ==
    <<args, input0, vert_coords, vert_deform_mats, vert_coords_prev, pc, impl,
      table, heap, data, task, clog, fall, sub>>

Verts == 1..NVerts

\* the C index i of the vertex v
TaskNone == [v \in Verts |-> [pc |-> "none"]]
FallNone == [d2 |-> RZero, radius |-> RZero, falloff |-> RZero, result |-> NULL]

Buffers(m, have_prev, have_mats) ==
    [vert_coords |->
        [v \in Verts |->
            IF have_prev
            THEN add_v3_v3(mul_m4_v3(Postmat0, MeshVert(m, v).co), V3(0, 0, v))
            ELSE mul_m4_v3(Postmat0, MeshVert(m, v).co)],
     vert_deform_mats |-> IF have_mats THEN Ptr([v \in Verts |-> unit_m3]) ELSE NULL,
     vert_coords_prev |->
        IF have_prev
        THEN Ptr([v \in Verts |-> mul_m4_v3(Postmat0, MeshVert(m, v).co)])
        ELSE NULL]

Args(flags, defgrp_name, m, p, kind, has_dverts, edbo, has_pose, recalc) ==
    [ob_arm |-> [edbo |-> edbo,
                 pose |-> IF has_pose
                          THEN Ptr([flag |-> IF recalc THEN {POSE_RECALC} ELSE {},
                                    chanbase |-> Poses[p]])
                          ELSE NULL,
                 obmat |-> ArmObmat],
     ob_target |-> [supports_vertex_groups |-> TRUE, obmat |-> TargetObmat],
     defbase |-> Defbase,
     deformflag |-> flags,
     defgrp_name |-> defgrp_name,
     vert_coords_len |-> NVerts,
     \* the deform-vertex storage: the dverts span, the evaluated mesh's
     \* deform_verts(), or the CD_MDEFORMVERT layer of the edit-mesh
     kind |-> kind,
     dverts |-> IF has_dverts THEN Ptr([v \in Verts |-> MeshVert(m, v).dw]) ELSE NULL]

\* the combinations of inputs explored: every flag set on a mesh target that has
\* deform vertices (the inversion of the overall group only with such a group:
\* it is not read without one; the second pose without an overall group and
\* without dual quaternions); the
\* other targets, the pose to recalculate and the invalid armatures on one mesh
InputOK(flags, defgrp_name, m, p, kind, has_dverts, edbo, has_pose, recalc) ==
    IF kind = "mesh" /\ has_dverts /\ ~edbo /\ has_pose /\ ~recalc
    THEN /\ ARM_DEF_INVERT_VGROUP \in flags => defgrp_name = "soft"
         /\ p # 1 => (defgrp_name = "" /\ ARM_DEF_QUATERNION \notin flags)
    ELSE /\ m = 0 /\ p = 1 /\ defgrp_name = "soft"
         /\ ARM_DEF_QUATERNION \notin flags
         /\ (edbo \/ ~has_pose) => (kind = "mesh" /\ has_dverts /\ ~recalc)

InitKernel ==
    \E flags \in SUBSET DeformFlags, defgrp_name \in {"", "soft"},
       m \in 0..(NMeshes - 1), p \in 1..Len(Poses),
       kind \in {"coords", "mesh", "editmesh"},
       has_dverts \in BOOLEAN, have_prev \in BOOLEAN, have_mats \in BOOLEAN,
       edbo \in BOOLEAN, has_pose \in BOOLEAN, recalc \in BOOLEAN :
        /\ InputOK(flags, defgrp_name, m, p, kind, has_dverts, edbo, has_pose, recalc)
        /\ args = Args(flags, defgrp_name, m, p, kind, has_dverts, edbo, has_pose, recalc)
        /\ input0 = Buffers(m, have_prev, have_mats)
        /\ vert_coords = input0.vert_coords
        /\ vert_deform_mats = input0.vert_deform_mats
        /\ vert_coords_prev = input0.vert_coords_prev
        /\ pc = "entry"
        /\ impl = [use_dverts |-> FALSE, armature_def_nr |-> -1, defbase_len |-> 0,
                   i |-> 0]
        /\ table = NULL
        /\ heap = [allocs |-> 0, frees |-> 0]
        /\ data = NULL
        /\ task = TaskNone
        /\ clog = 0
        /\ fall = FallNone
        /\ sub = NULL

(***************************************************************************)
(* armature_deform_coords_impl                                             *)
(***************************************************************************)
\* line 510
InvalidArmature(a) == a.ob_arm.edbo \/ IsNull(a.ob_arm.pose)

\* lines 509-512: in editmode, or not an armature
ImplReturnEarly ==
    /\ pc = "entry"
    /\ InvalidArmature(args)
    /\ pc' = "returned"
    /\ UNCHANGED <<args, input0, vert_coords, vert_deform_mats, vert_coords_prev,
                   impl, table, heap, data, task, clog, fall, sub>>

\* lines 527-538: whether the deform vertices are used
UseDverts(a) ==
    IF a.ob_target.supports_vertex_groups /\ ARM_DEF_VGROUP \in a.deformflag
    THEN IF a.kind = "editmesh" THEN ~IsNull(a.dverts)
         ELSE IF a.kind = "mesh" THEN ~IsNull(a.dverts)
         ELSE (IF IsNull(a.dverts) THEN 0 ELSE Len(a.dverts.val)) = a.vert_coords_len
    ELSE FALSE

\* no diagnostic for a pose to recalculate
DiagnoseSilent(a, n) == n

\* lines 514-517: CLOG_ERROR, n diagnostics having been emitted
Diagnose(a, n) == IF POSE_RECALC \in a.ob_arm.pose.val.flag THEN n + 1 ELSE n

\* lines 514-518 where BLI_assert is compiled in: the diagnostic is emitted
\* and the failed assertion ends the process
ImplAssert ==
    /\ pc = "entry"
    /\ ~InvalidArmature(args)
    /\ POSE_RECALC \in args.ob_arm.pose.val.flag
    /\ clog' = Diagnose(args, clog)
    /\ pc' = "aborted"
    /\ UNCHANGED <<args, input0, vert_coords, vert_deform_mats, vert_coords_prev,
                   impl, table, heap, data, task, fall, sub>>

\* lines 514-541 (BLI_assert compiled out, or the pose not to recalculate):
\* the diagnostic, the overall group, the allocation of the table
ImplResolve ==
    /\ pc = "entry"
    /\ ~InvalidArmature(args)
    /\ clog' = Diagnose(args, clog)
    /\ LET sup == args.ob_target.supports_vertex_groups
           use_dverts == UseDverts(args)
           defbase_len == IF sup THEN Len(args.defbase) ELSE 0
       IN  /\ impl' = [use_dverts |-> use_dverts,
                       armature_def_nr |->
                           IF sup
                           THEN BKE_defgroup_name_index(args.defbase, args.defgrp_name)
                           ELSE -1,
                       defbase_len |-> defbase_len,
                       i |-> 0]
           /\ IF use_dverts
              THEN /\ table' = Ptr([k \in 1..defbase_len |-> NULL])
                   /\ heap' = [heap EXCEPT !.allocs = @ + 1]
                   /\ pc' = "build"
              ELSE /\ UNCHANGED <<table, heap>>
                   /\ pc' = "setup"
    /\ UNCHANGED <<args, input0, vert_coords, vert_deform_mats, vert_coords_prev,
                   data, task, fall, sub>>

\* lines 548-554: the pose channel of one vertex group
TableEntry(chanbase, name) ==
    LET pchan == BKE_pose_channel_find_name(chanbase, name)
    IN  IF ~IsNull(pchan) /\ BONE_NO_DEFORM \in pchan.val.bone.val.flag THEN NULL
        ELSE pchan

\* lines 547-555: one round of LISTBASE_FOREACH_INDEX
ImplBuild ==
    /\ pc = "build"
    /\ impl.i < impl.defbase_len
    /\ table' = [table EXCEPT !.val[impl.i + 1] =
                    TableEntry(args.ob_arm.pose.val.chanbase,
                               args.defbase[impl.i + 1])]
    /\ impl' = [impl EXCEPT !.i = @ + 1]
    /\ UNCHANGED <<args, input0, vert_coords, vert_deform_mats, vert_coords_prev,
                   pc, heap, data, task, clog, fall, sub>>

\* lines 560-581: ArmatureUserdata
UserData(a, im, tbl, coords, mats, prev) ==
    LET postmat == mul_m4_m4m4(invert_m4_m4(a.ob_target.obmat), a.ob_arm.obmat)
    IN  [ob_arm |-> a.ob_arm,
         me_target |-> a.kind = "mesh",
         vert_coords |-> Ptr("vert_coords"),
         vert_deform_mats |-> IF IsNull(mats) THEN NULL ELSE Ptr("vert_deform_mats"),
         vert_coords_prev |-> IF IsNull(prev) THEN NULL ELSE Ptr("vert_coords_prev"),
         use_envelope |-> ARM_DEF_ENVELOPE \in a.deformflag,
         use_quaternion |-> ARM_DEF_QUATERNION \in a.deformflag,
         invert_vgroup |-> ARM_DEF_INVERT_VGROUP \in a.deformflag,
         use_dverts |-> im.use_dverts,
         armature_def_nr |-> im.armature_def_nr,
         dverts |-> IF a.kind = "editmesh" THEN NULL ELSE a.dverts,
         dverts_len |-> IF a.kind = "editmesh" \/ IsNull(a.dverts) THEN 0
                        ELSE Len(a.dverts.val),
         pchan_from_defbase |-> IF IsNull(tbl) THEN NULL ELSE Ptr("table"),
         defbase_len |-> im.defbase_len,
         premat |-> invert_m4_m4(postmat),
         postmat |-> postmat,
         cd_dvert_offset |-> IF a.kind = "editmesh" /\ im.use_dverts THEN 0 ELSE -1]

\* the tasks handed to the task scheduler before the table is built to its end
ImplDispatchEarly ==
    /\ pc \in {"build", "setup"}
    /\ data' = UserData(args, impl, table, vert_coords, vert_deform_mats,
                        vert_coords_prev)
    /\ task' = [v \in Verts |-> [pc |-> "start"]]
    /\ pc' = "tasks"
    /\ UNCHANGED <<args, input0, vert_coords, vert_deform_mats, vert_coords_prev,
                   impl, table, heap, clog, fall, sub>>

\* lines 560-604: the user data is filled and the tasks are handed to the
\* task scheduler
ImplDispatch ==
    /\ IF pc = "build" THEN impl.i = impl.defbase_len ELSE pc = "setup"
    /\ data' = UserData(args, impl, table, vert_coords, vert_deform_mats,
                        vert_coords_prev)
    /\ task' = [v \in Verts |-> [pc |-> "start"]]
    /\ pc' = "tasks"
    /\ UNCHANGED <<args, input0, vert_coords, vert_deform_mats, vert_coords_prev,
                   impl, table, heap, clog, fall, sub>>

\* lines 607-610: the tasks have all ended
ImplFree ==
    /\ pc = "tasks"
    /\ \A v \in Verts : task[v].pc = "done"
    /\ IF ~IsNull(data.pchan_from_defbase)
       THEN /\ table' = NULL
            /\ heap' = [heap EXCEPT !.frees = @ + 1]
       ELSE UNCHANGED <<table, heap>>
    /\ pc' = "returned"
    /\ UNCHANGED <<args, input0, vert_coords, vert_deform_mats, vert_coords_prev,
                   impl, data, task, clog, fall, sub>>

(***************************************************************************)
(* The per-vertex tasks.  A task works in place on its slot of the buffer  *)
(* it takes its coordinate from, so the task is split where it writes:     *)
(*   start -> apply   weights, early-out, premat (written), accumulation   *)
(*   apply -> post    the deformation and the matrix (written)             *)
(*   post  -> lerp    postmat (written)                                    *)
(*   lerp  -> done    the blend with the coordinate buffer (written)       *)
(* A step takes the three buffers B and the locals t of the task and       *)
(* yields both: [B |-> ..., t |-> ...].                                    *)
(***************************************************************************)
\* the three buffers, as one record
Buf == [vert_coords |-> vert_coords, vert_deform_mats |-> vert_deform_mats,
        vert_coords_prev |-> vert_coords_prev]

\* a task that uses the slot of the next vertex
NextSlot(v) == (v % NVerts) + 1

\* lines 325, 333, 414, 420, 430: the slot the task of vertex v works on, [i]
Slot(v) == v

\* lines 440-463, 472-474, 483: the deform vertex handed to the task
GetDvert(d, a, v) ==
    IF a.kind = "editmesh"
    THEN IF d.use_dverts THEN Ptr(a.dverts.val[v]) ELSE NULL
    ELSE IF d.use_dverts \/ d.armature_def_nr # -1
         THEN IF d.me_target
              THEN IF ~IsNull(d.dverts) THEN Ptr(d.dverts.val[v]) ELSE NULL
              ELSE IF ~IsNull(d.dverts) /\ (v - 1) < d.dverts_len
                   THEN Ptr(d.dverts.val[v])
                   ELSE NULL
         ELSE NULL

\* lines 325, 333: co, the coordinate the task works on
Working(d, B, v) ==
    IF ~IsNull(d.vert_coords_prev) THEN B.vert_coords_prev.val[Slot(v)]
    ELSE B.vert_coords[Slot(v)]

SetWorking(d, B, v, co) ==
    IF ~IsNull(d.vert_coords_prev)
    THEN [B EXCEPT !.vert_coords_prev.val[Slot(v)] = co]
    ELSE [B EXCEPT !.vert_coords[Slot(v)] = co]

\* the locals of a task that returned at lines 321 / 329
Skipped(dvert, w) ==
    [pc |-> "done", skipped |-> TRUE, dvert |-> dvert,
     armature_weight |-> w[1], prevco_weight |-> w[2]]

\* lines 336-384, given the pre-transformed coordinate
Accumulated(d, tbl, B, v, dvert, w, co) ==
    [B |-> SetWorking(d, B, v, co),
     t |-> [pc |-> "apply", skipped |-> FALSE, dvert |-> dvert,
            armature_weight |-> w[1], prevco_weight |-> w[2],
            co_pre |-> co, co_deformed |-> co,
            s |-> Accumulate(d, d.ob_arm.pose.val.chanbase, tbl, dvert, co,
                             ~IsNull(d.vert_deform_mats))]]

\* the early-out taken after the pre-transform instead of before it
BeginLate(d, tbl, B, v, dvert, w) ==
    IF EarlyOut(d, w[1], w[2])
    THEN [B |-> SetWorking(d, B, v, mul_m4_v3(d.premat, Working(d, B, v))),
          t |-> Skipped(dvert, w)]
    ELSE Accumulated(d, tbl, B, v, dvert, w, mul_m4_v3(d.premat, Working(d, B, v)))

\* lines 318-384, given the deform vertex and the two weights
Begin(d, tbl, B, v, dvert, w) ==
    IF EarlyOut(d, w[1], w[2])
    THEN [B |-> B, t |-> Skipped(dvert, w)]
    ELSE Accumulated(d, tbl, B, v, dvert, w, mul_m4_v3(d.premat, Working(d, B, v)))

\* lines 283-384
StepBegin(d, a, tbl, B, v) ==
    Begin(d, tbl, B, v, GetDvert(d, a, v), ResolveWeights(d, GetDvert(d, a, v)))

\* lines 406, 420, given <<co', vert_deform_mats[i]'>>
Applied2(d, B, t, v, r) ==
    [B |-> IF ~IsNull(d.vert_deform_mats) /\ AboveThreshold(t.s.contrib)
           THEN [SetWorking(d, B, v, r[1]) EXCEPT
                    !.vert_deform_mats.val[Slot(v)] = r[2]]
           ELSE SetWorking(d, B, v, r[1]),
     t |-> [t EXCEPT !.pc = "post", !.co_deformed = r[1]]]

\* lines 386-422
StepApply(d, B, t, v) ==
    Applied2(d, B, t, v,
             ApplyDeform(d, t.s, t.armature_weight, Working(d, B, v),
                         IF ~IsNull(d.vert_deform_mats)
                         THEN B.vert_deform_mats.val[Slot(v)] ELSE NULL))

\* lines 424-425
StepPost(d, B, t, v) ==
    [B |-> SetWorking(d, B, v, mul_m4_v3(d.postmat, Working(d, B, v))),
     t |-> [t EXCEPT !.pc = IF ~IsNull(d.vert_coords_prev) THEN "lerp" ELSE "done"]]

\* the blend with the two weights exchanged
StepLerpSwapped(d, B, t, v) ==
    [B |-> [B EXCEPT !.vert_coords[Slot(v)] =
                add_v3_v3(mul_v3_fl(B.vert_coords[Slot(v)], RSub(ROne, t.prevco_weight)),
                          mul_v3_fl(Working(d, B, v), t.prevco_weight))],
     t |-> [t EXCEPT !.pc = "done"]]

\* lines 427-433
StepLerp(d, B, t, v) ==
    [B |-> [B EXCEPT !.vert_coords[Slot(v)] =
                add_v3_v3(mul_v3_fl(B.vert_coords[Slot(v)], t.prevco_weight),
                          mul_v3_fl(Working(d, B, v), RSub(ROne, t.prevco_weight)))],
     t |-> [t EXCEPT !.pc = "done"]]

\* the buffers and the locals of task v become those of r
Commit(r, v) ==
    /\ vert_coords' = r.B.vert_coords
    /\ vert_deform_mats' = r.B.vert_deform_mats
    /\ vert_coords_prev' = r.B.vert_coords_prev
    /\ task' = [task EXCEPT ![v] = r.t]

TaskBegin(v) ==
    /\ pc = "tasks"
    /\ task[v].pc = "start"
    /\ Commit(StepBegin(data, args, table, Buf, v), v)
    /\ UNCHANGED <<args, input0, pc, impl, table, heap, data, clog, fall, sub>>

TaskApply(v) ==
    /\ pc = "tasks"
    /\ task[v].pc = "apply"
    /\ Commit(StepApply(data, Buf, task[v], v), v)
    /\ UNCHANGED <<args, input0, pc, impl, table, heap, data, clog, fall, sub>>

TaskPost(v) ==
    /\ pc = "tasks"
    /\ task[v].pc = "post"
    /\ Commit(StepPost(data, Buf, task[v], v), v)
    /\ UNCHANGED <<args, input0, pc, impl, table, heap, data, clog, fall, sub>>

TaskLerp(v) ==
    /\ pc = "tasks"
    /\ task[v].pc = "lerp"
    /\ Commit(StepLerp(data, Buf, task[v], v), v)
    /\ UNCHANGED <<args, input0, pc, impl, table, heap, data, clog, fall, sub>>

Next ==
    \/ ImplReturnEarly
    \/ ImplAssert
    \/ ImplResolve
    \/ ImplBuild
    \/ ImplDispatch
    \/ \E v \in Verts : TaskBegin(v)
    \/ \E v \in Verts : TaskApply(v)
    \/ \E v \in Verts : TaskPost(v)
    \/ \E v \in Verts : TaskLerp(v)
    \/ ImplFree

Spec == InitKernel /\ [][Next]_vars

(***************************************************************************)
(* bone_envelope_falloff on its own: the inputs are drawn from a grid of   *)
(* halves, the squared distance being the square of a grid value.          *)
(***************************************************************************)
FalloffGrid == {Rat(k, 2) : k \in 0..MaxFalloffNum}

InitFalloff ==
    /\ \E dist \in FalloffGrid, radius \in FalloffGrid, falloff \in FalloffGrid :
          fall = [d2 |-> square(dist), radius |-> radius, falloff |-> falloff,
                  result |-> NULL]
    /\ args = NULL
    /\ input0 = NULL
    /\ vert_coords = <<>>
    /\ vert_deform_mats = NULL
    /\ vert_coords_prev = NULL
    /\ pc = "falloff"
    /\ impl = NULL
    /\ table = NULL
    /\ heap = [allocs |-> 0, frees |-> 0]
    /\ data = NULL
    /\ task = TaskNone
    /\ clog = 0
    /\ sub = NULL

\* the call bone_envelope_falloff(d2, radius, falloff)
EvalFalloff ==
    /\ pc = "falloff"
    /\ IsNull(fall.result)
    /\ fall' = [fall EXCEPT !.result =
                   Ptr(bone_envelope_falloff(fall.d2, fall.radius, fall.falloff))]
    /\ UNCHANGED <<args, input0, vert_coords, vert_deform_mats, vert_coords_prev,
                   pc, impl, table, heap, data, task, clog, sub>>

NextFalloff == EvalFalloff

SpecFalloff == InitFalloff /\ [][NextFalloff]_vars

(***************************************************************************)
(* BLI_sub_frame.hh: struct SubFrame {int frame_; float subframe_;}.       *)
(* The int has IntBits bits and the float MantBits bits of significand,    *)
(* rounded to nearest, ties to even; the least positive float is           *)
(* 2^-FracBits, and a float x is kept as the integer x * 2^FracBits.       *)
(***************************************************************************)
FracBits == MantBits + 1
\* 1.0f
Unit == 2 ^ FracBits
\* INT32_MIN and INT32_MAX at IntBits bits
IntMin == -(2 ^ (IntBits - 1))
IntMax == 2 ^ (IntBits - 1) - 1
Ints == IntMin..IntMax

\* the spacing of the floats around the magnitude n
RECURSIVE UlpOf(_)
UlpOf(n) == IF n < 2 ^ MantBits THEN 1 ELSE 2 * UlpOf(n \div 2)

\* the float nearest to the magnitude n, ties to even
RoundMag(n, u) ==
    IF 2 * (n % u) < u THEN (n \div u) * u
    ELSE IF 2 * (n % u) > u THEN (n \div u + 1) * u
    ELSE IF (n \div u) % 2 = 0 THEN (n \div u) * u
    ELSE (n \div u + 1) * u

\* the result of a float operation whose exact value is n
RoundF(n) == IF n >= 0 THEN RoundMag(n, UlpOf(n)) ELSE -RoundMag(-n, UlpOf(-n))

\* float(i) of an int
FloatOfInt(i) == RoundF(i * Unit)

\* the floats from INT32_MIN to -(float)INT32_MIN
Floats == {n \in (IntMin * Unit)..(-IntMin * Unit) : RoundF(n) = n}

\* the floats in [0, 1)
UnitFloats == {n \in Floats : 0 <= n /\ n < Unit}

\* floorf
floorf(a) == (a \div Unit) * Unit

\* fractf of BLI_math_base: a - floorf(a)
fractf(a) == RoundF(a - floorf(a))

\* int(x) of a float holding an integer: the values the conversion can
\* yield; it is undefined when x is not in the range of int
IntOfFloat(x) ==
    IF x \div Unit \in Ints THEN {x \div Unit} ELSE Ints

\* std::nexttowardf(1.0f, 0.0)
nexttowardf_one_zero == Unit - Unit \div (2 ^ MantBits)

\* lines 31-32: the two assertions of the constructor hold
SubFrameAsserts(subframe) == subframe >= 0 /\ subframe < Unit

\* lines 29-33: SubFrame(const int frame, float subframe)
SubFrame(frame, subframe) == [frame_ |-> frame, subframe_ |-> subframe]

\* line 35: SubFrame(const float frame), int(floorf(frame)) having yielded i
SubFrameOfFloat(i, frame) == SubFrame(i, fractf(frame))

\* lines 47-50: explicit operator float()
operator_float(x) == RoundF(FloatOfInt(x.frame_) + x.subframe_)

\* lines 57-60
SubFrame_min == SubFrame(IntMin, 0)
\* lines 62-65
SubFrame_max == SubFrame(IntMax, nexttowardf_one_zero)

\* line 72: BLI_STRUCT_EQUALITY_OPERATORS_2(SubFrame, frame_, subframe_)
operator_eq(a, b) == a.frame_ = b.frame_ /\ a.subframe_ = b.subframe_

\* lines 74-77
operator_lt(a, b) ==
    a.frame_ < b.frame_ \/ (a.frame_ = b.frame_ /\ a.subframe_ < b.subframe_)
\* lines 79-82
operator_le(a, b) ==
    a.frame_ < b.frame_ \/ (a.frame_ = b.frame_ /\ a.subframe_ <= b.subframe_)
\* lines 84-87
operator_gt(a, b) ==
    a.frame_ > b.frame_ \/ (a.frame_ = b.frame_ /\ a.subframe_ > b.subframe_)
\* lines 89-92
operator_ge(a, b) ==
    a.frame_ > b.frame_ \/ (a.frame_ = b.frame_ /\ a.subframe_ >= b.subframe_)

\* The calls of SubFrame explored: a value a is built by one of the constructors
\* or taken from min() / max() and converted to float; a second value b is
\* built from (frame, subframe) or taken from min() / max(), and the two are
\* compared.
\*   sub.pc    "first", "convert", "second", "compare", "done", "aborted"
\*   sub.from  the float a was built from, or NULL
\*   sub.back  float(a), or NULL
\*   sub.cmp   the results of the comparisons, or NULL
InitSubFrame ==
    /\ sub = [pc |-> "first", from |-> NULL, a |-> NULL, b |-> NULL,
              back |-> NULL, cmp |-> NULL]
    /\ fall = FallNone
    /\ args = NULL
    /\ input0 = NULL
    /\ vert_coords = <<>>
    /\ vert_deform_mats = NULL
    /\ vert_coords_prev = NULL
    /\ pc = "subframe"
    /\ impl = NULL
    /\ table = NULL
    /\ heap = [allocs |-> 0, frees |-> 0]
    /\ data = NULL
    /\ task = TaskNone
    /\ clog = 0

NotSubFrame ==
    UNCHANGED <<args, input0, vert_coords, vert_deform_mats, vert_coords_prev,
                pc, impl, table, heap, data, task, clog, fall>>

\* the value x becomes a, or b if a is there
Built(x, from) ==
    IF sub.pc = "first"
    THEN sub' = [sub EXCEPT !.pc = "convert", !.a = Ptr(x), !.from = from]
    ELSE sub' = [sub EXCEPT !.pc = "compare", !.b = Ptr(x)]

\* SubFrame(frame, subframe), called as its assertions require
NewPair ==
    /\ pc = "subframe"
    /\ sub.pc \in {"first", "second"}
    /\ \E frame \in Ints, subframe \in UnitFloats :
          /\ SubFrameAsserts(subframe)
          /\ Built(SubFrame(frame, subframe), NULL)
    /\ NotSubFrame

\* SubFrame(frame) of a float; the assertions compiled out, or holding
NewFloat ==
    /\ pc = "subframe"
    /\ sub.pc = "first"
    /\ \E frame \in Floats :
          \E i \in IntOfFloat(floorf(frame)) :
              Built(SubFrameOfFloat(i, frame), Ptr(frame))
    /\ NotSubFrame

\* SubFrame(frame) of a float where BLI_assert is compiled in and an
\* assertion of the constructor fails: the process ends
NewFloatAssert ==
    /\ pc = "subframe"
    /\ sub.pc = "first"
    /\ \E frame \in Floats :
          /\ ~SubFrameAsserts(fractf(frame))
          /\ sub' = [sub EXCEPT !.pc = "aborted", !.from = Ptr(frame)]
    /\ NotSubFrame

NewMin ==
    /\ pc = "subframe"
    /\ sub.pc \in {"first", "second"}
    /\ Built(SubFrame_min, NULL)
    /\ NotSubFrame

NewMax ==
    /\ pc = "subframe"
    /\ sub.pc \in {"first", "second"}
    /\ Built(SubFrame_max, NULL)
    /\ NotSubFrame

\* float(a)
Convert ==
    /\ pc = "subframe"
    /\ sub.pc = "convert"
    /\ sub' = [sub EXCEPT !.pc = "second", !.back = Ptr(operator_float(sub.a.val))]
    /\ NotSubFrame

\* the comparisons of a with b, and of a with min() and max()
Comparisons(a, b) ==
    [lt |-> operator_lt(a, b), le |-> operator_le(a, b),
     gt |-> operator_gt(a, b), ge |-> operator_ge(a, b),
     eq |-> operator_eq(a, b),
     min_le |-> operator_le(SubFrame_min, a),
     le_max |-> operator_le(a, SubFrame_max)]

Compare ==
    /\ pc = "subframe"
    /\ sub.pc = "compare"
    /\ sub' = [sub EXCEPT !.pc = "done",
                          !.cmp = Ptr(Comparisons(sub.a.val, sub.b.val))]
    /\ NotSubFrame

NextSubFrame ==
    \/ NewPair
    \/ NewFloat
    \/ NewFloatAssert
    \/ NewMin
    \/ NewMax
    \/ Convert
    \/ Compare

SpecSubFrame == InitSubFrame /\ [][NextSubFrame]_vars

(***************************************************************************)
(* Properties                                                              *)
(***************************************************************************)
\* the task of vertex v went past the early-out: it has accumulators
Ran(v) == task[v].pc \in {"apply", "post", "lerp", "done"} /\ ~task[v].skipped

\* the pose channels the armature was called with
Chanbase == args.ob_arm.pose.val.chanbase

\* the weight entry names a vertex group that has a deforming bone in the pose
DeformingBoneEntry(dw) ==
    /\ dw.def_nr < Len(args.defbase)
    /\ \E k \in 1..Len(Chanbase) :
          /\ Chanbase[k].name = args.defbase[dw.def_nr + 1]
          /\ BONE_NO_DEFORM \notin Chanbase[k].bone.val.flag

\* vertex groups are in use and an entry of the vertex found a deforming bone
VGroupBoneFound(v) ==
    /\ data.use_dverts
    /\ ~IsNull(task[v].dvert)
    /\ \E j \in 1..Len(task[v].dvert.val) : DeformingBoneEntry(task[v].dvert.val[j])

\* a pose channel was weighted by its envelope for the vertex
EnvelopeUsed(s) ==
    s.envelope \/ \E k \in 1..Len(s.contribs) : s.contribs[k].path = "envelope"

\* C1: the envelopes of the whole armature are applied to a vertex only when
\* envelope mode is enabled and no entry of the vertex found a vertex-group
\* bone (vertex groups disabled, no weight entries, or none with a deforming
\* bone); whenever a vertex-group bone was found for the vertex, no pose
\* channel contributes through the envelope path.
C1_EnvelopeOnlyWithoutVGroupBone ==
    \A v \in Verts : Ran(v) =>
        /\ EnvelopeUsed(task[v].s) => data.use_envelope /\ ~VGroupBoneFound(v)
        /\ VGroupBoneFound(v) =>
              \A k \in 1..Len(task[v].s.contribs) :
                  task[v].s.contribs[k].path = "vgroup"

\* the fallback: vertex groups in use, weight entries present, none with a
\* bone, and the envelopes deformed the vertex
C1_Witness ==
    \E v \in Verts :
        /\ Ran(v)
        /\ data.use_dverts
        /\ ~IsNull(task[v].dvert) /\ Len(task[v].dvert.val) > 0
        /\ task[v].s.envelope
        /\ Len(task[v].s.applied) > 0

\* C2: on both paths a bone is added to the accumulator, and its weight to
\* the contribution, only if its resolved weight is strictly positive and the
\* bone is not flagged no-deform; a weight that is zero or negative changes
\* neither the accumulator nor the contribution.
C2_OnlyPositiveWeightsContribute ==
    \A v \in Verts : Ran(v) =>
        /\ \A k \in 1..Len(task[v].s.applied) :
              RGt(task[v].s.applied[k].weight, RZero)
        /\ \A k \in 1..Len(task[v].s.contribs) :
              /\ RGe(task[v].s.contribs[k].weight, RZero)
              /\ \A j \in 1..Len(Chanbase) :
                    Chanbase[j].name = task[v].s.contribs[k].pchan
                        => BONE_NO_DEFORM \notin Chanbase[j].bone.val.flag

\* a vertex-group bone of negative weight was added to the accumulator, or an
\* envelope bone of negative weight to the contribution
C2_NegativeWeightContributed ==
    \E v \in Verts :
        /\ Ran(v)
        /\ \/ \E k \in 1..Len(task[v].s.applied) :
                 RLt(task[v].s.applied[k].weight, RZero)
           \/ \E k \in 1..Len(task[v].s.contribs) :
                 /\ task[v].s.contribs[k].path = "envelope"
                 /\ RLt(task[v].s.contribs[k].weight, RZero)

\* the coordinate the task of vertex v starts from
InputCo(v) ==
    IF IsNull(input0.vert_coords_prev) THEN input0.vert_coords[v]
    ELSE input0.vert_coords_prev.val[v]

\* the slot the task of vertex v worked on, as it is now
WorkingCo(v) ==
    IF IsNull(vert_coords_prev) THEN vert_coords[v] ELSE vert_coords_prev.val[v]

\* the task of vertex v ended with a contribution of at most 1e-4
BelowThreshold(v) ==
    task[v].pc = "done" /\ ~task[v].skipped /\ RLe(task[v].s.contrib, Threshold)

MatUnwritten(v) ==
    IsNull(vert_deform_mats)
        \/ vert_deform_mats.val[v] = input0.vert_deform_mats.val[v]

PassThrough(co) == mul_m4_v3(data.postmat, mul_m4_v3(data.premat, co))

\* C3, as stated: for a vertex whose contribution is at most 1e-4 the
\* coordinate written is the input coordinate (of the coordinate buffer, or
\* of the previous-coordinate buffer) passed through premat and postmat, it
\* equals that input coordinate, and the deformation matrix is not written.
C3_PassThroughAsStated ==
    \A v \in Verts : BelowThreshold(v) =>
        /\ vert_coords[v] \in
              {PassThrough(input0.vert_coords[v]), PassThrough(InputCo(v))}
        /\ vert_coords[v] \in {input0.vert_coords[v], InputCo(v)}
        /\ MatUnwritten(v)

\* C3: for a vertex whose contribution is at most 1e-4 the coordinate the task
\* works on ends as its input passed through premat and postmat, which is that
\* input, and the deformation matrix is not written; the coordinate buffer
\* holds that value when no previous-coordinate buffer is supplied, and else
\* the blend of its old value with that value by the previous-coordinate
\* weight.
C3_PassThroughOfWorkingCoordinate ==
    \A v \in Verts : BelowThreshold(v) =>
        /\ WorkingCo(v) = PassThrough(InputCo(v))
        /\ WorkingCo(v) = InputCo(v)
        /\ MatUnwritten(v)
        /\ vert_coords[v] =
              IF IsNull(input0.vert_coords_prev) THEN input0.vert_coords[v]
              ELSE add_v3_v3(mul_v3_fl(input0.vert_coords[v], task[v].prevco_weight),
                             mul_v3_fl(InputCo(v),
                                       RSub(ROne, task[v].prevco_weight)))

\* quaternion mode with matrices: something was accumulated, yet at most 1e-4
C3_Witness ==
    \E v \in Verts :
        /\ BelowThreshold(v)
        /\ RGt(task[v].s.contrib, RZero)
        /\ data.use_quaternion
        /\ ~IsNull(vert_deform_mats)

\* the three slots of vertex u in the buffers B
SlotsOf(B, u) ==
    <<B.vert_coords[u],
      IF IsNull(B.vert_deform_mats) THEN NULL ELSE Ptr(B.vert_deform_mats.val[u]),
      IF IsNull(B.vert_coords_prev) THEN NULL ELSE Ptr(B.vert_coords_prev.val[u])>>

\* the effective working weight of vertex v is zero
ZeroWorkingWeight(v) ==
    /\ task[v].pc \notin {"none", "start"}
    /\ IF IsNull(input0.vert_coords_prev) THEN task[v].armature_weight = RZero
       ELSE task[v].prevco_weight = ROne

\* C4: a vertex whose effective working weight is zero (armature weight 0
\* without a previous-coordinate buffer, previous-coordinate weight 1 with
\* one) is left before any transform: its coordinate, its deformation matrix
\* and its previous coordinate stay as they were and nothing is accumulated.
C4_ZeroWeightVertexUntouched ==
    \A v \in Verts : ZeroWorkingWeight(v) =>
        /\ task[v].pc = "done" /\ task[v].skipped
        /\ SlotsOf(Buf, v) = SlotsOf(input0, v)

\* a skipped vertex, with a previous coordinate and a matrix, at the return
C4_Witness ==
    /\ pc = "returned"
    /\ ~IsNull(vert_coords_prev) /\ ~IsNull(vert_deform_mats)
    /\ \E v \in Verts : ZeroWorkingWeight(v) /\ task[v].prevco_weight = ROne

\* C5: the previous-coordinate buffer is read-only: after the invocation every
\* entry of it holds the value it held before.
C5_PrevCoordsUnchanged ==
    pc = "returned" => vert_coords_prev = input0.vert_coords_prev

\* the invocation returned with an entry of the previous coordinates changed
C5_PrevCoordsWritten ==
    /\ pc = "returned"
    /\ ~IsNull(vert_coords_prev)
    /\ \E v \in Verts : vert_coords_prev.val[v] # input0.vert_coords_prev.val[v]

\* the whole task of vertex v, from the buffers B: the buffers it leaves
RunRest(d, r, v) ==
    IF r.t.pc = "done" THEN r.B
    ELSE LET r2 == StepApply(d, r.B, r.t, v)
             r3 == StepPost(d, r2.B, r2.t, v)
         IN  IF r3.t.pc = "lerp" THEN StepLerp(d, r3.B, r3.t, v).B ELSE r3.B

RunTask(d, a, tbl, B, v) == RunRest(d, StepBegin(d, a, tbl, B, v), v)

\* the tasks run one after the other, in the order o
RECURSIVE RunOrder(_, _, _, _, _, _)
RunOrder(d, a, tbl, B, o, k) ==
    IF k > NVerts THEN B
    ELSE RunOrder(d, a, tbl, RunTask(d, a, tbl, B, o[k]), o, k + 1)

Orders ==
    {o \in [1..NVerts -> Verts] : \A i, j \in 1..NVerts : o[i] = o[j] => i = j}

\* a step taken while the tasks run writes the slots of one vertex only, that
\* of the task that took it, and neither the pose, the deform vertices, the
\* user data nor (but for its release at the end) the lookup table
C6_Step ==
    pc = "tasks" =>
        /\ \A u \in Verts : SlotsOf(Buf', u) # SlotsOf(Buf, u) => task'[u] # task[u]
        /\ Cardinality({u \in Verts : task'[u] # task[u]}) <= 1
        /\ args' = args
        /\ pc' = "tasks" => table' = table /\ data' = data

\* the tasks have all ended: the buffers are those of any sequential run
C6_Final ==
    (pc = "tasks" /\ \A v \in Verts : task[v].pc = "done") =>
        \A o \in Orders : Buf = RunOrder(data, args, table, input0, o, 1)

\* C6: in any interleaving of the tasks of a batch, the task of vertex i
\* writes only slot i of the coordinate, matrix and previous-coordinate
\* buffers, never the pose, the deform vertices or the lookup table, and the
\* final buffers are those of a sequential run in any vertex order.
C6_TasksWriteOwnSlotOnly == [][C6_Step]_vars /\ [](C6_Final)

\* two tasks in flight at once, both past their first write
C6_Witness ==
    /\ pc = "tasks"
    /\ ~IsNull(vert_coords_prev) /\ ~IsNull(vert_deform_mats)
    /\ \E u, v \in Verts :
          /\ u # v
          /\ task[u].pc = "post" /\ task[v].pc = "apply"
          /\ SlotsOf(Buf, u) # SlotsOf(input0, u)
          /\ SlotsOf(Buf, v) # SlotsOf(input0, v)

\* what the lookup table holds for vertex group k once it is built
BuiltEntry(k) ==
    IF \E j \in 1..Len(Chanbase) :
          /\ Chanbase[j].name = args.defbase[k]
          /\ BONE_NO_DEFORM \notin Chanbase[j].bone.val.flag
    THEN Ptr(Chanbase[CHOOSE j \in 1..Len(Chanbase) :
                          Chanbase[j].name = args.defbase[k]])
    ELSE NULL

C7_State ==
    /\ heap.allocs <= 1
    /\ heap.frees <= heap.allocs
    /\ IsNull(table) <=> heap.allocs = heap.frees
    /\ pc \in {"build", "setup", "tasks"} => (heap.allocs = 1 <=> UseDverts(args))
    /\ pc = "tasks" =>
          (UseDverts(args) =>
              /\ ~IsNull(table)
              /\ DOMAIN table.val = 1..Len(args.defbase)
              /\ \A k \in 1..Len(args.defbase) : table.val[k] = BuiltEntry(k))
    /\ pc = "returned" =>
          /\ IsNull(table)
          /\ heap.frees = heap.allocs
          /\ heap.allocs = 1 <=> (~InvalidArmature(args) /\ UseDverts(args))

\* while a task of the batch has not ended the table is neither modified nor
\* released
C7_Step ==
    (pc = "tasks" /\ \E v \in Verts : task[v].pc # "done") =>
        table' = table /\ heap' = heap

\* C7: the lookup table is allocated at most once per invocation, exactly
\* when vertex groups are in use; it is fully built before the first task
\* starts, neither modified nor released while a task runs, and released
\* exactly once before the return; no return path leaves a table allocated.
C7_TableLifecycle == [](C7_State) /\ [][C7_Step]_vars

\* the invocation returned after allocating and releasing the table
C7_Witness ==
    /\ pc = "returned"
    /\ heap.allocs = 1 /\ heap.frees = 1
    /\ \A v \in Verts : task[v].pc = "done"

\* the weight entries whose index is in the range of the lookup table
InRange(d, dvert) == SelectSeq(dvert, LAMBDA dw : dw.def_nr < d.defbase_len)

HasOutOfRange(v) ==
    /\ data.use_dverts
    /\ ~IsNull(task[v].dvert)
    /\ \E j \in 1..Len(task[v].dvert.val) :
          task[v].dvert.val[j].def_nr >= Len(args.defbase)

\* C8: a weight entry whose index is outside the lookup table adds nothing to
\* the accumulator or the contribution and does not mark the vertex as
\* deformed, and the other entries of the vertex are processed: the task
\* goes on with the accumulators of the vertex without such entries.
C8_OutOfRangeEntryIgnored ==
    \A v \in Verts : (pc = "tasks" /\ Ran(v) /\ HasOutOfRange(v)) =>
        /\ task[v].s =
              Accumulate(data, Chanbase, table,
                         Ptr(InRange(data, task[v].dvert.val)), task[v].co_pre,
                         ~IsNull(data.vert_deform_mats))

\* an out-of-range entry followed by an entry with a bone, which deformed
C8_Witness ==
    \E v \in Verts :
        /\ pc = "tasks" /\ task[v].pc = "done" /\ Ran(v) /\ HasOutOfRange(v)
        /\ task[v].dvert.val[1].def_nr >= Len(args.defbase)
        /\ Len(task[v].s.contribs) > 0
        /\ task[v].s.contribs[1].path = "vgroup"
        /\ task[v].co_deformed # task[v].co_pre

FalloffInRange ==
    RGe(fall.result.val, RZero) /\ RLe(fall.result.val, ROne)

RECURSIVE SumApplied(_, _, _)
SumApplied(applied, k, p) ==
    IF k > Len(applied) THEN zero_v3
    ELSE add_v3_v3(mul_v3_fl(sub_v3_v3(mul_m4_v3(applied[k].mat, p), p),
                             applied[k].weight),
                   SumApplied(applied, k + 1, p))

\* the task of vertex v deformed its coordinate, in linear mode
LinearDeformed(v) ==
    /\ Ran(v) /\ task[v].pc # "apply"
    /\ ~data.use_quaternion
    /\ RGt(task[v].s.contrib, Threshold)

\* C10: in linear mode, above the threshold, the coordinate before postmat is
\* p + (armature_weight / contribution) * sum of weight_k * (M_k * p - p) over
\* the contributing bones; with one contributing bone and armature weight 1
\* it is the bone's matrix applied to p, whatever the weight.
C10_LinearBlend ==
    \A v \in Verts : LinearDeformed(v) =>
        /\ task[v].co_deformed =
              add_v3_v3(task[v].co_pre,
                        mul_v3_fl(SumApplied(task[v].s.applied, 1, task[v].co_pre),
                                  RDiv(task[v].armature_weight, task[v].s.contrib)))
        /\ (Len(task[v].s.applied) = 1 /\ task[v].armature_weight = ROne) =>
              task[v].co_deformed =
                  mul_m4_v3(task[v].s.applied[1].mat, task[v].co_pre)

\* one bone in the accumulator, armature weight 1, and the result is not the
\* bone's matrix applied to p
C10_SingleBoneOvershoot ==
    \E v \in Verts :
        /\ LinearDeformed(v)
        /\ Len(task[v].s.applied) = 1 /\ task[v].armature_weight = ROne
        /\ task[v].co_deformed # mul_m4_v3(task[v].s.applied[1].mat, task[v].co_pre)

\* the task of vertex v ended, with a previous-coordinate buffer, not skipped
BlendedWithPrev(v) ==
    /\ ~IsNull(input0.vert_coords_prev)
    /\ task[v].pc = "done" /\ ~task[v].skipped

\* prevco_weight * a + (1 - prevco_weight) * b
LerpByPrevco(v, a, b) ==
    add_v3_v3(mul_v3_fl(a, task[v].prevco_weight),
              mul_v3_fl(b, RSub(ROne, task[v].prevco_weight)))

HasOverallGroup(v) ==
    /\ \E k \in 1..Len(args.defbase) : args.defbase[k] = args.defgrp_name
    /\ ~IsNull(task[v].dvert)

\* the weight w of the overall group in the vertex, 1 - w if inverted
OverallWeight(v) ==
    LET w == BKE_defvert_find_weight(
                 task[v].dvert.val,
                 (CHOOSE k \in 1..Len(args.defbase) :
                     args.defbase[k] = args.defgrp_name) - 1)
    IN  IF ARM_DEF_INVERT_VGROUP \in args.deformflag THEN RSub(ROne, w) ELSE w

\* C12: without an overall group (or without a deform vertex) the armature
\* weight is 1 and the previous-coordinate weight 0; with an overall group and
\* no previous-coordinate buffer the armature weight is w (1 - w if inverted)
\* and the previous-coordinate weight 0; with an overall group and a
\* previous-coordinate buffer the armature weight is 1 and the
\* previous-coordinate weight the complement; at most one of the two differs
\* from its neutral value.
C12_WeightResolution ==
    \A v \in Verts : task[v].pc \notin {"none", "start"} =>
        /\ ~HasOverallGroup(v) =>
              task[v].armature_weight = ROne /\ task[v].prevco_weight = RZero
        /\ (HasOverallGroup(v) /\ IsNull(input0.vert_coords_prev)) =>
              /\ task[v].armature_weight = OverallWeight(v)
              /\ task[v].prevco_weight = RZero
        /\ (HasOverallGroup(v) /\ ~IsNull(input0.vert_coords_prev)) =>
              /\ task[v].armature_weight = ROne
              /\ task[v].prevco_weight = RSub(ROne, OverallWeight(v))
        /\ task[v].armature_weight = ROne \/ task[v].prevco_weight = RZero

\* an inverted overall group of weight strictly between 0 and 1, blended with
\* the previous coordinates
C12_Witness ==
    \E v \in Verts :
        /\ task[v].pc \notin {"none", "start"}
        /\ HasOverallGroup(v)
        /\ ~IsNull(input0.vert_coords_prev)
        /\ ARM_DEF_INVERT_VGROUP \in args.deformflag
        /\ RGt(task[v].prevco_weight, RZero) /\ RLt(task[v].prevco_weight, ROne)

\* the pose channel is deformed as a B-Bone
BBoneChannel(pchan) ==
    /\ pchan.bone.val.segments > 1
    /\ pchan.bbone_segments = pchan.bone.val.segments

ChannelNamed(name) ==
    Chanbase[CHOOSE k \in 1..Len(Chanbase) : Chanbase[k].name = name]

\* the additions to contrib that changed it
Contributions(s) == SelectSeq(s.contribs, LAMBDA c : c.weight # RZero)

TheContribution(v) == Contributions(task[v].s)[1]

\* the accumulators of vertex v are complete and hold one contribution, of a
\* B-Bone channel whose vertex-group weight is not scaled by its envelope
OneBBone(v) ==
    /\ Ran(v)
    /\ Len(Contributions(task[v].s)) = 1
    /\ BBoneChannel(ChannelNamed(TheContribution(v).pchan))
    /\ BONE_MULT_VG_ENV \notin ChannelNamed(TheContribution(v).pchan).bone.val.flag

\* the transform of segment k of a B-Bone channel
SegmentMat(pchan, k) == pchan.bbone_deform_mats[k + 2]

\* the weight w the channel is given for the vertex: the weight of its vertex
\* group, or its envelope factor times the weight of the bone
GivenWeight(v, pchan, path) ==
    IF path = "vgroup"
    THEN BKE_defvert_find_weight(task[v].dvert.val,
             (CHOOSE k \in 1..Len(args.defbase) : args.defbase[k] = pchan.name) - 1)
    ELSE RMul(distfactor_to_bone(task[v].co_pre, pchan.bone.val.arm_head,
                  pchan.bone.val.arm_tail, pchan.bone.val.rad_head,
                  pchan.bone.val.rad_tail, pchan.bone.val.dist),
              pchan.bone.val.weight)

\* segment k with weight w * (1 - b) and segment k + 1 with weight w * b, the
\* zero weights left out
WeightedSegments(pchan, k, b, w) ==
    SelectSeq(<<[mat |-> SegmentMat(pchan, k), weight |-> RMul(w, RSub(ROne, b))],
                [mat |-> SegmentMat(pchan, k + 1), weight |-> RMul(w, b)]>>,
              LAMBDA e : e.weight # RZero)

\* the accumulators a bone without segments, of transform mat, leaves
SingleSegment(v, mat, w) ==
    pchan_deform_accumulate(mat, mat, task[v].co_pre, w,
        InitAccum(data.use_quaternion, ~IsNull(data.vert_deform_mats)),
        ~IsNull(data.vert_deform_mats))

SameAccumulators(s, t) ==
    s.vec = t.vec /\ s.dq = t.dq /\ s.mat = t.mat /\ s.applied = t.applied

BBoneAsStated(v, pchan, ib, w, s) ==
    /\ ib[1] \in 0..(pchan.bone.val.segments - 2)
    /\ RGe(ib[2], RZero) /\ RLe(ib[2], ROne)
    /\ s.applied = WeightedSegments(pchan, ib[1], ib[2], w)
    /\ ib[2] = RZero =>
          SameAccumulators(s, SingleSegment(v, SegmentMat(pchan, ib[1]), w))
    /\ ib[2] = ROne =>
          SameAccumulators(s, SingleSegment(v, SegmentMat(pchan, ib[1] + 1), w))
    /\ s.contrib = w

\* C13: a B-Bone channel given weight w for a vertex at segment index k with
\* blend b in [0, 1] accumulates the transform of segment k with weight
\* w * (1 - b) and that of segment k + 1 with weight w * b; at b = 0 only
\* segment k and at b = 1 only segment k + 1 contributes, the accumulators
\* being those of a bone without segments holding that transform with
\* weight w; the contribution grows by exactly w.
C13_BBoneSegmentBlend ==
    \A v \in Verts : OneBBone(v) =>
        BBoneAsStated(v, ChannelNamed(TheContribution(v).pchan),
            BKE_pchan_bbone_deform_segment_index(
                ChannelNamed(TheContribution(v).pchan), task[v].co_pre),
            GivenWeight(v, ChannelNamed(TheContribution(v).pchan),
                        TheContribution(v).path),
            task[v].s)

BlendOf(v) ==
    BKE_pchan_bbone_deform_segment_index(
        ChannelNamed(TheContribution(v).pchan), task[v].co_pre)[2]

\* a B-Bone vertex at blend 1, weighted by its vertex group
C13_Witness ==
    \E v \in Verts :
        /\ OneBBone(v) /\ BlendOf(v) = ROne
        /\ TheContribution(v).path = "vgroup"
        /\ Len(task[v].s.applied) = 1

C13_WitnessBlendZero ==
    \E v \in Verts : OneBBone(v) /\ BlendOf(v) = RZero /\ Len(task[v].s.applied) = 1

C13_WitnessBetween ==
    \E v \in Verts : OneBBone(v) /\ Len(task[v].s.applied) = 2

\* a B-Bone vertex weighted by the envelope of its bone
C13_WitnessEnvelope ==
    \E v \in Verts :
        /\ OneBBone(v)
        /\ TheContribution(v).path = "envelope"
        /\ task[v].s.contrib = R(2)

\* the armature is valid and its pose is flagged POSE_RECALC
NeedsRecalc == ~InvalidArmature(args) /\ POSE_RECALC \in args.ob_arm.pose.val.flag

\* the arguments with POSE_RECALC cleared
ClearedArgs == [args EXCEPT !.ob_arm.pose.val.flag = @ \ {POSE_RECALC}]

\* the locals of lines 521-541 for the arguments a
LocalsOf(a) ==
    [use_dverts |-> UseDverts(a),
     armature_def_nr |->
         IF a.ob_target.supports_vertex_groups
         THEN BKE_defgroup_name_index(a.defbase, a.defgrp_name) ELSE -1,
     defbase_len |-> IF a.ob_target.supports_vertex_groups THEN Len(a.defbase) ELSE 0,
     i |-> 0]

\* the lookup table of lines 543-558 for the arguments a
TableOf(a) ==
    IF UseDverts(a)
    THEN Ptr([k \in 1..LocalsOf(a).defbase_len |->
                 TableEntry(a.ob_arm.pose.val.chanbase, a.defbase[k])])
    ELSE NULL

\* the buffers the invocation leaves for the arguments a, the tasks run one
\* after the other
ProcessedAs(a) ==
    RunOrder(UserData(a, LocalsOf(a), TableOf(a), input0.vert_coords,
                      input0.vert_deform_mats, input0.vert_coords_prev),
             a, TableOf(a), input0, [k \in 1..NVerts |-> k], 1)

C14_WitnessAborted == NeedsRecalc /\ pc = "aborted"

\* the total of the weights the transforms were added with
RECURSIVE TotalWeight(_, _)
TotalWeight(applied, k) ==
    IF k > Len(applied) THEN RZero
    ELSE RAdd(applied[k].weight, TotalWeight(applied, k + 1))

\* the accumulators of s agree with its contribution
ContribIsAppliedWeight(s) ==
    /\ s.contrib = TotalWeight(s.applied, 1)
    /\ Len(Contributions(s)) = 0 <=> Len(s.applied) = 0

\* C16: at the end of the accumulation of a vertex the contribution equals
\* the total weight of the transforms added to the accumulator, on the
\* vertex-group path and on the envelope path alike: a weight is added to the
\* contribution if and only if a transform was added with that weight.
C16_ContribEqualsAppliedWeight ==
    \A v \in Verts : Ran(v) => ContribIsAppliedWeight(task[v].s)

\* the contribution of a vertex holds a weight no transform was added with:
\* the negative envelope weight of a bone
C16_ContribWithoutTransform ==
    \E v \in Verts :
        /\ Ran(v)
        /\ task[v].s.contrib # TotalWeight(task[v].s.applied, 1)
        /\ \E k \in 1..Len(task[v].s.contribs) :
              /\ task[v].s.contribs[k].path = "envelope"
              /\ RLt(task[v].s.contribs[k].weight, RZero)

\* on the vertex-group path alone the two agree
C16_VGroupPathAgrees ==
    \A v \in Verts : (Ran(v) /\ ~EnvelopeUsed(task[v].s)) =>
        ContribIsAppliedWeight(task[v].s)

\* and so they do on the envelope path when no bone weighs in negatively
C16_EnvelopePathAgreesWithoutNegative ==
    \A v \in Verts :
        (Ran(v) /\ \A k \in 1..Len(task[v].s.contribs) :
                       RGe(task[v].s.contribs[k].weight, RZero)) =>
            ContribIsAppliedWeight(task[v].s)

\* a was built from the float frame by SubFrame(frame)
BuiltFromFloat == sub.pc \in {"convert", "second", "compare", "done"} /\ ~IsNull(sub.from)

SubframeInRange(x) == 0 <= x.subframe_ /\ x.subframe_ < Unit

\* C15: every SubFrame value, built from (frame, subframe), from a float f
\* through floor and fract (negative f included) or by min() and max(), has
\* its subframe in [0, 1); and converting the SubFrame built from f back to a
\* number yields f.
C15_SubframeInUnitRangeAndRoundTrip ==
    /\ ~IsNull(sub.a) => SubframeInRange(sub.a.val)
    /\ ~IsNull(sub.b) => SubframeInRange(sub.b.val)
    /\ sub.pc # "aborted"
    /\ (~IsNull(sub.from) /\ ~IsNull(sub.back)) => sub.back.val = sub.from.val

\* a small negative float has become a SubFrame whose subframe is 1.0 and
\* whose conversion back is not the float
C15_SubframeIsOne ==
    /\ BuiltFromFloat
    /\ sub.from.val < 0 /\ sub.from.val > -Unit
    /\ sub.a.val = SubFrame(-1, Unit)
    /\ ~IsNull(sub.back) /\ sub.back.val # sub.from.val

\* a negative float in the range of int came back as another float, its
\* subframe in range
C15_NegativeRoundTripLost ==
    /\ BuiltFromFloat
    /\ sub.from.val \div Unit \in Ints
    /\ SubframeInRange(sub.a.val)
    /\ ~IsNull(sub.back) /\ sub.back.val # sub.from.val

\* what holds of C15: the values built from (frame, subframe), min() and
\* max() and from a float f >= 0 in the range of int
C15_HoldsFromZeroUp ==
    /\ (~IsNull(sub.a) /\ IsNull(sub.from)) => SubframeInRange(sub.a.val)
    /\ ~IsNull(sub.b) => SubframeInRange(sub.b.val)
    /\ (~IsNull(sub.a) /\ ~IsNull(sub.from)
            /\ sub.from.val >= 0 /\ sub.from.val \div Unit \in Ints) =>
          /\ SubframeInRange(sub.a.val)
          /\ ~IsNull(sub.back) => sub.back.val = sub.from.val

\* the SubFrame values there are, the subframe 1.0 among them
SubFrames == [frame_ : Ints, subframe_ : UnitFloats \cup {Unit}]

\* the number frame + subframe, as the integer it is 2^-FracBits of
NumericValue(x) == x.frame_ * Unit + x.subframe_

\* one and only one of the three
ExactlyOne(p, q, r) ==
    (p \/ q \/ r) /\ ~(p /\ q) /\ ~(p /\ r) /\ ~(q /\ r)

\* the comparisons c of a with b are those of a strict total order
TotalOrder(a, b, c) ==
    /\ ExactlyOne(c.lt, c.eq, c.gt)
    /\ c.le <=> ~c.gt
    /\ c.ge <=> ~c.lt
    /\ c.lt <=> (a.frame_ < b.frame_
                   \/ (a.frame_ = b.frame_ /\ a.subframe_ < b.subframe_))
    /\ \A z \in SubFrames : (c.lt /\ operator_lt(b, z)) => operator_lt(a, z)
    /\ \A z \in SubFrames : (operator_lt(z, a) /\ c.lt) => operator_lt(z, b)
    /\ c.min_le /\ c.le_max

\* C17: the comparison operators of SubFrame are a strict total order,
\* lexicographic on (frame, subframe) and consistent with equality: exactly
\* one of a < b, a == b, a > b holds; a <= b iff not a > b; a >= b iff not
\* a < b; < is transitive; min() <= a <= max(); and a < b iff the number
\* frame + subframe of a is less than that of b.
C17_StrictTotalOrderByNumericValue ==
    sub.pc = "done" =>
        /\ TotalOrder(sub.a.val, sub.b.val, sub.cmp.val)
        /\ sub.cmp.val.lt <=> NumericValue(sub.a.val) < NumericValue(sub.b.val)

\* a, built from a small negative float, is less than b = (0, 0.0) while
\* the two are the same number
C17_LessButSameNumber ==
    /\ sub.pc = "done"
    /\ ~IsNull(sub.from) /\ sub.from.val < 0
    /\ sub.a.val = SubFrame(-1, Unit)
    /\ sub.b.val = SubFrame(0, 0)
    /\ sub.cmp.val.lt
    /\ NumericValue(sub.a.val) = NumericValue(sub.b.val)

\* what holds of C17: the order itself, whatever the subframes
C17_HoldsTotalOrder ==
    sub.pc = "done" => TotalOrder(sub.a.val, sub.b.val, sub.cmp.val)

\* and the agreement with the number when the subframe of a is in [0, 1)
C17_HoldsNumericWhenInRange ==
    (sub.pc = "done" /\ SubframeInRange(sub.a.val)) =>
        (sub.cmp.val.lt <=> NumericValue(sub.a.val) < NumericValue(sub.b.val))

=============================================================================
